---- MODULE Spec2Model ----
(***************************************************************************)
(* Model of TradingModel (src/trader.py): the price window, the position   *)
(* record and the per-tick transition decide_position, with the oracle     *)
(* wrapper HybridTechnicalModel.predict_up_probability (src/model.py).     *)
(*                                                                         *)
(* Number encodings                                                        *)
(*   probabilities  integers in percent: 0.5 is 50, 1.0 is 100.            *)
(*   prices         integers.                                              *)
(*   np.std(w)      for a window w of n samples the model carries          *)
(*                  (n * std)^2 = n * sum(x^2) - (sum x)^2, an integer     *)
(*                  that determines std = sqrt(.) / n exactly.  Every      *)
(*                  window decide_position reads has n = k samples.        *)
(*   risk           delta / std is a float64 division.  It is carried as   *)
(*                  the pair (num, densq) with risk = num / sqrt(densq),   *)
(*                  or as inf / -inf / nan when std is 0 (numpy scalar     *)
(*                  division by zero yields these and does not raise).     *)
(* Arithmetic is exact: float rounding is not modelled.                    *)
(***************************************************************************)
EXTENDS Integers, Sequences, FiniteSets, TLC

\* ------------------------------------------------------------------ bounds
\* k: window length, p: hold length of the engine under check
\* (TraderManager builds TradingModel(k=90, p=30); the tests also k=5, p=2).
k == 2
p == 2
\* prices range over 100 .. 100 + PriceSpan
PriceSpan == 2
\* the exchange reports a held exposure of -MaxHeld .. MaxHeld lots
MaxHeld == 1
\* sizes at the exchange are counted in parts of the minimum lot of 0.001 BTC:
\* LotParts parts make one lot
LotParts == 2

Prices == 100 .. (100 + PriceSpan)

\* raw outputs of the network, in percent; two of them lie outside [0, 1]
RawPredictions == {-50, 25, 50, 75, 150}

\* ------------------------------------------------------- module constants
\* amounts are in units of 0.001 BTC, the lot get_position truncates to
BASE_AMOUNT == 1
RIKAKU_STD == 2
SONKIRI_STD == 1

\* the default indicator windows of TradingModel.__init__
DefaultWindows ==
    [sma_short |-> 5, sma_mid |-> 20, sma_long |-> 60, bollinger_band |-> 20,
     macd_long |-> 26, macd_signal |-> 9, rsi |-> 14]

\* THRESHOLD_UP / THRESHOLD_DOWN as the source sets them
DefaultThresholds == [up |-> 50, down |-> 50]
\* the module globals read by decide_position at call time: the source's
\* values and one setting that leaves a neutral band between them
ThresholdSettings == {DefaultThresholds, [up |-> 75, down |-> 25]}

VARIABLES
    price_history,   \* TradingModel.price_history
    position,        \* TradingModel.position: [side, count, price, std]
    THRESHOLD_UP,    \* module global, percent
    THRESHOLD_DOWN,  \* module global, percent
    op,              \* the call made last
    prediction,      \* predict_up_probability's raw network output, prediction[0][0]
    prob,            \* decide_position's local prob (locals: of the latest
                     \* decide_position call since the last update)
    predicted_side,  \* decide_position's local predicted_side
    exit_flag,       \* decide_position's local exit_flag (FALSE where never set)
    prev,            \* decide_position's local prev      (0 where never set)
    signal,          \* the value get_signal returned, when it is the call made last
    windows,         \* TradingModel's seven indicator window sizes
    valid_start_index,   \* TradingModel.valid_start_index
    valid_start_before,  \* valid_start_index of the engine built just before this one
    historical_prices,   \* bulk_initialize's argument, when it is the call made last
    supplied,        \* every price passed to update so far (kept by SpecUpdate only)
    calls,           \* TraderManager.step: the calls made in the step made last, in order
    actual_position, \* TraderManager.step's local actual_position, in units of 0.001
    order,           \* the arguments of the step's make_order call, NoOrder if none
    raised,          \* the call whose exception left the step, "none" if none did
    data_list,       \* MainScreen.data_list: per Trader its price_list and position
    next_position,   \* MainScreen.run's local next_position, in units of self.amount
    engine_p,        \* TradingModel.p, the hold length the engine was built with
    hist_init,       \* _initialize_single_model: how it went, success and what it raised
    initializer,     \* a HistoricalDataInitializer: its environment, its cached
                     \* _available, and what the call made last returned or raised
    exchange         \* the account at the exchange and BitFlyer's last make_order:
                     \* the exposure held, the request, what was sent, the fill

engine_vars == <<price_history, position, op, prediction, prob, predicted_side,
                 exit_flag, prev, signal>>
global_vars == <<THRESHOLD_UP, THRESHOLD_DOWN>>
cfg_vars    == <<windows, valid_start_index, valid_start_before, engine_p>>
mgr_vars    == <<calls, actual_position, order, raised, hist_init>>
screen_vars == <<data_list, next_position>>
ext_vars    == <<initializer, exchange>>

vars == <<price_history, position, THRESHOLD_UP, THRESHOLD_DOWN, op, prediction,
          prob, predicted_side, exit_flag, prev, signal, windows, valid_start_index,
          valid_start_before, historical_prices, supplied, calls, actual_position,
          order, raised, data_list, next_position, engine_p, hist_init,
          initializer, exchange>>

\* ----------------------------------------------------------------- helpers
RECURSIVE Sum(_)
Sum(xs) == IF xs = <<>> THEN 0 ELSE Head(xs) + Sum(Tail(xs))

RECURSIVE SumSq(_)
SumSq(xs) == IF xs = <<>> THEN 0 ELSE Head(xs) * Head(xs) + SumSq(Tail(xs))

\* np.std(xs), population standard deviation, carried as (Len(xs) * std)^2
np_std(xs) == Len(xs) * SumSq(xs) - Sum(xs) * Sum(xs)

\* xs[-n:] for n >= 1
LastN(xs, n) == IF Len(xs) <= n THEN xs ELSE SubSeq(xs, Len(xs) - n + 1, Len(xs))

FlatPosition == [side |-> 0, count |-> 0, price |-> 0, std |-> 0]

\* ------------------------------------------------------------ TradingModel
\* slip: the slice [:k], which keeps the oldest k and drops the newest
update_KeepOldest(ph, price) ==
    LET appended == Append(ph, price)
    IN  IF Len(appended) > k THEN SubSeq(appended, 1, k) ELSE appended

\* slip: the slice [-(k-1):], one sample fewer kept once the list overflows
update_KeepFewer(ph, price) ==
    LET appended == Append(ph, price)
    IN  IF Len(appended) > k THEN LastN(appended, k - 1) ELSE appended

\* update(price): append, keep the last k
update(ph, price) ==
    LET appended == Append(ph, price)
    IN  IF Len(appended) > k THEN LastN(appended, k) ELSE appended

ready(ph) == Len(ph) >= k

\* HybridTechnicalModel.predict_up_probability: the raw output clamped to [0, 1]
Min2(a, b) == IF b < a THEN b ELSE a
Max2(a, b) == IF b > a THEN b ELSE a
predict_up_probability(raw) == Max2(0, Min2(100, raw))

\* slip: the down threshold compared with < instead of <=
PredictedSide_StrictDown(pr, up, down) ==
    IF pr > up THEN 1 ELSE IF pr < down THEN -1 ELSE 0

\* predicted_side = 1 if prob > THRESHOLD_UP else -1 if prob <= THRESHOLD_DOWN else 0
PredictedSide(pr, up, down) ==
    IF pr > up THEN 1 ELSE IF pr <= down THEN -1 ELSE 0

\* delta = (current_price - position['price']) * position['side']
\* risk  = delta / position['std']
Risk(current_price, pos) ==
    LET delta == (current_price - pos.price) * pos.side
    IN  IF pos.std = 0
        THEN [kind |-> IF delta > 0 THEN "inf" ELSE IF delta < 0 THEN "-inf" ELSE "nan",
              num |-> 0, densq |-> 0]
        ELSE [kind |-> "fin", num |-> delta * k, densq |-> pos.std]

\* num / sqrt(densq) > c, for densq > 0
FinGreater(num, densq, c) ==
    IF c >= 0 THEN num > 0 /\ num * num > c * c * densq
              ELSE num >= 0 \/ num * num < c * c * densq

\* risk > c and risk < c on float64 values (every comparison with nan is false)
RiskGreater(r, c) ==
    CASE r.kind = "inf"  -> TRUE
      [] r.kind = "-inf" -> FALSE
      [] r.kind = "nan"  -> FALSE
      [] OTHER           -> FinGreater(r.num, r.densq, c)

RiskLess(r, c) ==
    CASE r.kind = "inf"  -> FALSE
      [] r.kind = "-inf" -> TRUE
      [] r.kind = "nan"  -> FALSE
      [] OTHER           -> FinGreater(-r.num, r.densq, -c)

\* slip: the two risk comparisons written >= and <=
ExitFlag_NonStrict(count, r) ==
    \/ count = 0
    \/ r.kind = "inf"  \/ (r.kind = "fin" /\ ~FinGreater(-r.num, r.densq, -RIKAKU_STD))
    \/ r.kind = "-inf" \/ (r.kind = "fin" /\ ~FinGreater(r.num, r.densq, -SONKIRI_STD))

\* slip: the count == 0 test left out
ExitFlag_NoCount(count, r) ==
    RiskGreater(r, RIKAKU_STD) \/ RiskLess(r, -SONKIRI_STD)

\* exit_flag = count == 0 or risk > RIKAKU_STD or risk < -SONKIRI_STD
ExitFlag(count, r) ==
    count = 0 \/ RiskGreater(r, RIKAKU_STD) \/ RiskLess(r, -SONKIRI_STD)

\* slip: no reopen on the same side, the engine waits a tick Flat
AfterExit_NoReopen(prev_side, ps, current_price, std) ==
    IF ps = -prev_side
    THEN [side |-> ps, count |-> p, price |-> current_price, std |-> std]
    ELSE FlatPosition

\* slip: no direct flip, the engine waits a tick Flat
AfterExit_NoFlip(prev_side, ps, current_price, std) ==
    IF ps = prev_side
    THEN [side |-> prev_side, count |-> p, price |-> current_price, std |-> std]
    ELSE FlatPosition

\* slip: every exit that is not a flip renews the held side
AfterExit_KeepOnNeutral(prev_side, ps, current_price, std) ==
    IF ps = -prev_side
    THEN [side |-> ps, count |-> p, price |-> current_price, std |-> std]
    ELSE [side |-> prev_side, count |-> p, price |-> current_price, std |-> std]

\* the position after an exit: reset, then reopened on the same side or flipped
AfterExit(prev_side, ps, current_price, std) ==
    IF ps = prev_side
    THEN [side |-> prev_side, count |-> p, price |-> current_price, std |-> std]
    ELSE IF ps = -prev_side
    THEN [side |-> ps, count |-> p, price |-> current_price, std |-> std]
    ELSE FlatPosition

\* slip: the count is tested but never decremented
HoldingStep_NoCountDown(pos, ps, current_price, std) ==
    LET ef == ExitFlag(pos.count, Risk(current_price, pos))
    IN  [position  |-> IF ef THEN AfterExit(pos.side, ps, current_price, std) ELSE pos,
         exit_flag |-> ef,
         prev      |-> IF ef THEN pos.side ELSE 0]

\* slip: a held position follows an opposite prediction without an exit
HoldingStep_FollowPrediction(pos, ps, current_price, std) ==
    LET count == pos.count - 1
        ef    == ExitFlag(count, Risk(current_price, pos))
    IN  [position  |-> IF ef THEN AfterExit(pos.side, ps, current_price, std)
                             ELSE [pos EXCEPT !.count = count,
                                              !.side = IF ps = 0 THEN @ ELSE ps],
         exit_flag |-> ef,
         prev      |-> IF ef THEN pos.side ELSE 0]

\* the branch taken while a position is held
HoldingStep(pos, ps, current_price, std) ==
    LET count == pos.count - 1
        ef    == ExitFlag(count, Risk(current_price, pos))
    IN  [position  |-> IF ef THEN AfterExit(pos.side, ps, current_price, std)
                             ELSE [pos EXCEPT !.count = count],
         exit_flag |-> ef,
         prev      |-> IF ef THEN pos.side ELSE 0]

\* slip: the entry volatility is not stored on open
FlatStep_NoStd(pos, ps, current_price, std) ==
    [position  |-> IF ps # 0
                   THEN [side |-> ps, count |-> p, price |-> current_price, std |-> pos.std]
                   ELSE pos,
     exit_flag |-> FALSE,
     prev      |-> 0]

\* slip: a neutral prediction opens a short
FlatStep_AlwaysOpen(pos, ps, current_price, std) ==
    [position  |-> [side |-> IF ps = 1 THEN 1 ELSE -1, count |-> p,
                    price |-> current_price, std |-> std],
     exit_flag |-> FALSE,
     prev      |-> 0]

\* the branch taken while flat
FlatStep(pos, ps, current_price, std) ==
    [position  |-> IF ps # 0
                   THEN [side |-> ps, count |-> p, price |-> current_price, std |-> std]
                   ELSE pos,
     exit_flag |-> FALSE,
     prev      |-> 0]

\* decide_position on a ready model, given the probability the oracle returned
decide_position(ph, pos, pr, up, down) ==
    LET current_price == ph[Len(ph)]
        std           == np_std(ph)
        ps            == PredictedSide(pr, up, down)
    IN  IF pos.side # 0 THEN HoldingStep(pos, ps, current_price, std)
                        ELSE FlatStep(pos, ps, current_price, std)

\* ---- the same methods on an engine built with any window length n and hold
\* update(price) with self.k = n
update_k(n, ph, price) ==
    LET appended == Append(ph, price)
    IN  IF Len(appended) > n THEN LastN(appended, n) ELSE appended

\* slip: ready only once the window has overflowed
ready_k_Strict(n, ph) == Len(ph) > n

\* ready() with self.k = n
ready_k(n, ph) == Len(ph) >= n

\* risk for an entry std taken over n samples
RiskOver(n, current_price, pos) ==
    LET delta == (current_price - pos.price) * pos.side
    IN  IF pos.std = 0
        THEN [kind |-> IF delta > 0 THEN "inf" ELSE IF delta < 0 THEN "-inf" ELSE "nan",
              num |-> 0, densq |-> 0]
        ELSE [kind |-> "fin", num |-> delta * n, densq |-> pos.std]

\* the branch taken while a position is held, entry std over n samples
HoldingStepOver(n, pos, ps, current_price, std) ==
    LET count == pos.count - 1
        ef    == ExitFlag(count, RiskOver(n, current_price, pos))
    IN  [position  |-> IF ef THEN AfterExit(pos.side, ps, current_price, std)
                             ELSE [pos EXCEPT !.count = count],
         exit_flag |-> ef,
         prev      |-> IF ef THEN pos.side ELSE 0]

\* decide_position on a ready engine built with self.k = n and self.p = hold:
\* self.p is read only where a position is written on open, reopen and flip
decide_position_kp(n, hold, ph, pos, pr, up, down) ==
    LET current_price == ph[Len(ph)]
        std           == np_std(ph)
        ps            == PredictedSide(pr, up, down)
        res           == IF pos.side # 0 THEN HoldingStepOver(n, pos, ps, current_price, std)
                                         ELSE FlatStep(pos, ps, current_price, std)
        fresh         == ps # 0 /\ (pos.side = 0 \/ res.exit_flag)
    IN  [res EXCEPT !.position = IF fresh THEN [@ EXCEPT !.count = hold] ELSE @]

\* ---------------------------------------------------------- warm start
\* slip: rsi_start taken as rsi_window - 1, like the other indicators
calculate_valid_start_index_RsiMinusOne(sma_short_window, sma_mid_window, sma_long_window, bollinger_band_window, macd_long_window, macd_signal_window, rsi_window) ==
    LET sma_start       == Max2(Max2(sma_short_window, sma_mid_window), sma_long_window) - 1
        bollinger_start == bollinger_band_window - 1
        macd_start      == macd_long_window - 1 + macd_signal_window - 1
        rsi_start       == rsi_window - 1
    IN  Max2(Max2(Max2(sma_start, bollinger_start), macd_start), rsi_start)

\* slip: the span between the long and the short average instead of the longest
calculate_valid_start_index_SmaSpan(sma_short_window, sma_mid_window, sma_long_window, bollinger_band_window, macd_long_window, macd_signal_window, rsi_window) ==
    LET sma_start       == sma_long_window - sma_short_window
        bollinger_start == bollinger_band_window - 1
        macd_start      == macd_long_window - 1 + macd_signal_window - 1
        rsi_start       == rsi_window
    IN  Max2(Max2(Max2(sma_start, bollinger_start), macd_start), rsi_start)

\* ml_modules.data_processing.calculate_valid_start_index
calculate_valid_start_index(sma_short_window, sma_mid_window, sma_long_window, bollinger_band_window, macd_long_window, macd_signal_window, rsi_window) ==
    LET sma_start       == Max2(Max2(sma_short_window, sma_mid_window), sma_long_window) - 1
        bollinger_start == bollinger_band_window - 1
        macd_start      == macd_long_window - 1 + macd_signal_window - 1
        rsi_start       == rsi_window
    IN  Max2(Max2(Max2(sma_start, bollinger_start), macd_start), rsi_start)

\* the call TradingModel.__init__ makes with its window sizes
ValidStartOf(w) ==
    calculate_valid_start_index(w.sma_short, w.sma_mid, w.sma_long, w.bollinger_band,
                                w.macd_long, w.macd_signal, w.rsi)

\* the list slice xs[a:b] for 0 <= a <= b
Slice(xs, a, b) ==
    LET last == Min2(b, Len(xs))
    IN  IF a >= last THEN <<>> ELSE SubSeq(xs, a + 1, last)

\* slip: the k most recent samples, the zero-padded prefix not skipped
bulk_initialize_LastK(hist, valid_start) == LastN(hist, k)

\* slip: one sample too many skipped
bulk_initialize_SkipOneMore(hist, valid_start) ==
    Slice(hist, valid_start + 1, valid_start + 1 + k)

\* bulk_initialize: price_history = historical_prices[valid_start:valid_end]
bulk_initialize(hist, valid_start) ==
    LET valid_end == valid_start + k
    IN  Slice(hist, valid_start, valid_end)

\* slip: count > 1 instead of count > 0
get_signal_OffByOne(pos) == IF pos.count > 1 THEN pos.side ELSE 0

\* get_signal: position['side'] if position['count'] > 0 else 0
get_signal(pos) == IF pos.count > 0 THEN pos.side ELSE 0

\* ------------------------------------------- Trader / MainScreen (temp02.py)
\* The first two Traders of MainScreen.data_list, Trader(1, 90, 30, .., 2, 2,
\* force=True) and Trader(1, 90, 60, .., 8, 1), with max_len 90 as k and
\* pred_len 30 / 60 as p / 2p.  minute is 1 for every Trader and run() raises
\* count before the loop, so the count tests of refresh_position always pass.
TraderConfigs ==
    << [max_length |-> k, predict_length |-> p, rikaku |-> 2, sonkiri |-> 2,
        force |-> TRUE],
       [max_length |-> k, predict_length |-> 2 * p, rikaku |-> 8, sonkiri |-> 1,
        force |-> FALSE] >>

Traders == 1 .. Len(TraderConfigs)

\* Trader.__init__ / reset
NewTrader == [price_list |-> <<>>, position |-> FlatPosition]

\* what ret_indication() is to refresh_position: 1 / -1 for an indicator above
\* similar_value in size and of that sign, 0 for one within it
Indications == {-1, 0, 1}

\* the two prices the exchange quotes to MainScreen
ScreenPrices == {100, 100 + PriceSpan}

\* rik_son = (price - position['price']) * position['side'] / position['std']
\* for a std taken over n samples
RikSon(price, pos, n) ==
    LET delta == (price - pos.price) * pos.side
    IN  IF pos.std = 0
        THEN [kind |-> IF delta > 0 THEN "inf" ELSE IF delta < 0 THEN "-inf" ELSE "nan",
              num |-> 0, densq |-> 0]
        ELSE [kind |-> "fin", num |-> delta * n, densq |-> pos.std]

\* the held position after the count-down and the rikaku / sonkiri test
AfterCountDown(pos, cfg, price) ==
    IF pos.side = 0 THEN pos
    ELSE IF pos.count - 1 = 0 THEN FlatPosition
    ELSE LET rik_son == RikSon(price, pos, cfg.max_length)
         IN  IF RiskGreater(rik_son, cfg.rikaku) \/ RiskLess(rik_son, -cfg.sonkiri)
             THEN FlatPosition
             ELSE [pos EXCEPT !.count = @ - 1]

\* Trader.refresh_position(price, count) on the Trader state tr; an exception
\* of ret_indication is caught and leaves what indication 0 leaves
refresh_position(tr, cfg, price, indication) ==
    LET appended == Append(tr.price_list, price)
    IN  IF cfg.max_length <= Len(appended)
        THEN LET price_list == LastN(appended, cfg.max_length)
                 held       == AfterCountDown(tr.position, cfg, price)
             IN  [price_list |-> price_list,
                  position   |->
                      IF (held.side = 0 \/ cfg.force) /\ indication # 0
                      THEN [side |-> indication, count |-> cfg.predict_length,
                            price |-> price, std |-> np_std(price_list)]
                      ELSE held]
        ELSE [price_list |-> appended, position |-> tr.position]

\* slip: price_list one list shared by the Traders (a class attribute), so
\* that a Trader's append shows in every Trader's list
RefreshOne_SharedList(dl, i, price, indication) ==
    [j \in Traders |->
        IF j = i THEN refresh_position(dl[j], TraderConfigs[j], price, indication)
        ELSE [dl[j] EXCEPT !.price_list = Append(@, price)]]

\* i.refresh_position(price, self.count) for the Trader i of data_list
RefreshOne(dl, i, price, indication) ==
    [dl EXCEPT ![i] = refresh_position(dl[i], TraderConfigs[i], price, indication)]

\* for i in <order>: i.refresh_position(price, self.count)
RECURSIVE RunLoop(_, _, _, _)
RunLoop(dl, order_of_traders, price, indications) ==
    IF order_of_traders = <<>> THEN dl
    ELSE LET i == Head(order_of_traders)
         IN  RunLoop(RefreshOne(dl, i, price, indications[i]), Tail(order_of_traders),
                     price, indications)

\* data_list in the order MainScreen.__init__ lists it
ListOrder == [i \in Traders |-> i]

RECURSIVE SumSides(_, _)
SumSides(dl, n) == IF n = 0 THEN 0 ELSE dl[n].position.side + SumSides(dl, n - 1)

\* next_position = round(sum(i.position['side'] for i in data_list) * amount, 4)
NextPosition(dl) == SumSides(dl, Len(TraderConfigs)) * BASE_AMOUNT

\* ------------------------------------------- historical-data initialization
\* how HistoricalDataInitializer can go: the import of historical_data fails,
\* boto3 is missing, the credentials are missing, the DynamoDB connection
\* fails, fetch_historical_prices raises, or it returns prices (maybe none)
HistOutcomes ==
    {"import_error", "no_boto3", "no_credentials", "connection_failed",
     "fetch_error", "fetched"}

NotInitialized == [outcome |-> "none", success |-> FALSE, raised |-> "none"]

\* slip: no try / except around the initialization, the error leaves __init__
initialize_single_model_NoCatch(outcome, hist, ph, valid_start) ==
    [price_history |-> IF outcome = "fetched" /\ hist # <<>>
                       THEN bulk_initialize(hist, valid_start) ELSE ph,
     success       |-> outcome = "fetched" /\ hist # <<>>,
     raised        |-> IF outcome \in {"import_error", "connection_failed", "fetch_error"}
                       THEN outcome ELSE "none"]

\* TraderManager._initialize_single_model over
\* HistoricalDataInitializer.initialize_single_model: the window the engine is
\* left with, the success flag, and the exception that leaves __init__
initialize_single_model(outcome, hist, ph, valid_start) ==
    [price_history |-> IF outcome = "fetched" /\ hist # <<>>
                       THEN bulk_initialize(hist, valid_start) ELSE ph,
     success       |-> outcome = "fetched" /\ hist # <<>>,
     raised        |-> "none"]

\* ---- HistoricalDataInitializer (src/historical_data.py), read with the
\* ---- statements of fetch_historical_prices after the scan call as the
\* ---- body of the function
\* __init__: the environment is read once; BOTO3_AVAILABLE is the module's
\* flag, credentials says whether both AWS keys were found; _available is
\* None until is_available has been asked once
HistoricalDataInitializer(boto3, credentials) ==
    [BOTO3_AVAILABLE |-> boto3, credentials |-> credentials, available |-> "None",
     answer |-> "None", prices |-> <<>>, raised |-> "none"]

NewInitializer == HistoricalDataInitializer(FALSE, FALSE)

\* is_available() asked without looking at the cached answer
is_available_NoCache(hdi, connects) ==
    IF hdi.BOTO3_AVAILABLE /\ hdi.credentials /\ connects THEN "True" ELSE "False"

\* is_available(): the cached answer if there is one, else False without
\* boto3 or without credentials, else whether _connect_dynamodb went through
\* (its exception is caught); the answer is cached
is_available(hdi, connects) ==
    IF hdi.available # "None" THEN hdi.available
    ELSE IF ~hdi.BOTO3_AVAILABLE THEN "False"
    ELSE IF ~hdi.credentials THEN "False"
    ELSE IF connects THEN "True"
    ELSE "False"

\* fetch_historical_prices(m): [] when is_available() is false; else the
\* scan, whose exception nothing catches, and the prices it found in time
\* order (a short result is only reported by a warning)
fetch_historical_prices(hdi, connects, scan) ==
    LET a == is_available(hdi, connects) IN
    IF a = "False"
    THEN [hdi EXCEPT !.available = a, !.answer = "None", !.prices = <<>>,
                     !.raised = "none"]
    ELSE IF ~scan.ok
    THEN [hdi EXCEPT !.available = a, !.answer = "None", !.prices = <<>>,
                     !.raised = "scan"]
    ELSE [hdi EXCEPT !.available = a, !.answer = "None", !.prices = scan.prices,
                     !.raised = "none"]

\* ------------------------------------------------- BitFlyer (exchanges.py)
\* sizes and exposures are integers counted in 1/LotParts of 0.001 BTC
NoSend == [side |-> "NONE", size |-> 0, price |-> 0]
NoRequest == [side |-> "NONE", size |-> 0, order_type |-> "NONE"]
NewExchange ==
    [held |-> 0, request |-> NoRequest, sent |-> NoSend, raised |-> "none",
     fill |-> "none"]

\* get_position: int(float(posi) * 1000) / 1000, the signed exposure cut
\* towards zero to whole lots; the result is in lots
get_position(held) ==
    IF held >= 0 THEN held \div LotParts ELSE -((-held) \div LotParts)

\* slip: the size rounded to the nearest lot, and no minimum
make_order_Rounds(side, size, order_type, board, advantage, fail) ==
    IF order_type = "LIMIT" /\ fail = "get_board"
    THEN [sent |-> NoSend, raised |-> "get_board"]
    ELSE LET price  == IF order_type # "LIMIT" THEN 0
                       ELSE IF side = "BUY" THEN board.ask - advantage
                       ELSE board.bid + advantage
             amount == ((2 * size + LotParts) \div (2 * LotParts)) * LotParts
         IN  [sent   |-> [side |-> side, size |-> amount, price |-> price],
              raised |-> IF fail = "order" THEN "order" ELSE "none"]

\* make_order(side, size): nothing below 0.001; a LIMIT order is priced off
\* the best ask or bid of the board; the size sent is
\* int(float(size) * 1000) / 1000; sent is what self.order was called with
make_order(side, size, order_type, board, advantage, fail) ==
    IF size < LotParts
    THEN [sent |-> NoSend, raised |-> "none"]
    ELSE IF order_type = "LIMIT" /\ fail = "get_board"
    THEN [sent |-> NoSend, raised |-> "get_board"]
    ELSE LET price  == IF order_type # "LIMIT" THEN 0
                       ELSE IF side = "BUY" THEN board.ask - advantage
                       ELSE board.bid + advantage
             amount == (size \div LotParts) * LotParts
         IN  [sent   |-> [side |-> side, size |-> amount, price |-> price],
              raised |-> IF fail = "order" THEN "order" ELSE "none"]

\* ------------------------------------------------------------------ actions
NoOrder == [side |-> "NONE", size |-> 0]

\* TradingModel.__init__ with window sizes w and hold length hold: the
\* arguments are stored as they come
ConstructWith(w, hold) ==
    /\ windows = w
    /\ engine_p = hold
    /\ valid_start_index = ValidStartOf(w)
    /\ price_history = <<>>
    /\ position = FlatPosition

\* TradingModel.__init__ with window sizes w
Construct(w) == ConstructWith(w, p)

\* everything outside the engine's fields, before the first call
Idle ==
    /\ op = "init"
    /\ prediction = 0
    /\ prob = 0
    /\ predicted_side = 0
    /\ exit_flag = FALSE
    /\ prev = 0
    /\ signal = 0
    /\ valid_start_before = 0
    /\ historical_prices = <<>>
    /\ supplied = <<>>
    /\ calls = <<>>
    /\ actual_position = 0
    /\ order = NoOrder
    /\ raised = "none"
    /\ hist_init = NotInitialized
    /\ initializer = NewInitializer
    /\ exchange = NewExchange
    /\ data_list = [i \in Traders |-> NewTrader]
    /\ next_position = 0

Init ==
    /\ Construct(DefaultWindows)
    /\ \E t \in ThresholdSettings : THRESHOLD_UP = t.up /\ THRESHOLD_DOWN = t.down
    /\ Idle

\* update(price) that also forgets the position
UpdateEngine_ResetPosition(price) ==
    /\ price_history' = update(price_history, price)
    /\ op' = "update"
    /\ prediction' = 0
    /\ prob' = 0 /\ predicted_side' = 0 /\ exit_flag' = FALSE /\ prev' = 0
    /\ signal' = 0
    /\ historical_prices' = <<>>
    /\ position' = FlatPosition
    /\ UNCHANGED <<THRESHOLD_UP, THRESHOLD_DOWN>>
    /\ UNCHANGED <<cfg_vars, mgr_vars, screen_vars, ext_vars>>

\* update(price), but for the log of supplied prices
UpdateEngine(price) ==
    /\ price_history' = update(price_history, price)
    /\ op' = "update"
    /\ prediction' = 0
    /\ prob' = 0 /\ predicted_side' = 0 /\ exit_flag' = FALSE /\ prev' = 0
    /\ signal' = 0
    /\ historical_prices' = <<>>
    /\ UNCHANGED <<position, THRESHOLD_UP, THRESHOLD_DOWN>>
    /\ UNCHANGED <<cfg_vars, mgr_vars, screen_vars, ext_vars>>

Update(price) ==
    /\ UpdateEngine(price)
    /\ UNCHANGED supplied

DecidePosition(raw) ==
    /\ op' = "decide_position"
    /\ signal' = 0
    /\ historical_prices' = <<>>
    /\ IF ~ready(price_history)
       THEN /\ prediction' = 0
            /\ prob' = 0 /\ predicted_side' = 0 /\ exit_flag' = FALSE /\ prev' = 0
            /\ UNCHANGED position
       ELSE LET pr  == predict_up_probability(raw)
                res == decide_position(price_history, position, pr,
                                       THRESHOLD_UP, THRESHOLD_DOWN)
            IN  /\ prediction' = raw
                /\ prob' = pr
                /\ predicted_side' = PredictedSide(pr, THRESHOLD_UP, THRESHOLD_DOWN)
                /\ exit_flag' = res.exit_flag
                /\ prev' = res.prev
                /\ position' = res.position
    /\ UNCHANGED <<price_history, THRESHOLD_UP, THRESHOLD_DOWN>>
    /\ UNCHANGED <<cfg_vars, supplied, mgr_vars, screen_vars, ext_vars>>

GetSignal ==
    /\ op' = "get_signal"
    /\ signal' = get_signal(position)
    /\ historical_prices' = <<>>
    /\ UNCHANGED <<price_history, position, THRESHOLD_UP, THRESHOLD_DOWN,
                   prediction, prob, predicted_side, exit_flag, prev>>
    /\ UNCHANGED <<cfg_vars, supplied, mgr_vars, screen_vars, ext_vars>>

\* histories handed to bulk_initialize: ramps over the price range that wrap
\* around (the tests use list(range(1000, 1000 + n))), of every length up to
\* one more than valid_start_index + k
Ramp(start, n) == [i \in 1..n |-> 100 + ((start + i) % (PriceSpan + 1))]
Histories ==
    {Ramp(start, n) : start \in 0..PriceSpan,
                      n \in 0..(ValidStartOf(DefaultWindows) + k + 1)}

\* bulk_initialize(historical_prices), called on a newly built engine (by
\* HistoricalDataInitializer.initialize_single_model and by the tests)
BulkInitialize(hist) ==
    /\ op = "init"
    /\ op' = "bulk_initialize"
    /\ historical_prices' = hist
    /\ price_history' = bulk_initialize(hist, valid_start_index)
    /\ UNCHANGED <<position, THRESHOLD_UP, THRESHOLD_DOWN,
                   prediction, prob, predicted_side, exit_flag, prev, signal>>
    /\ UNCHANGED <<cfg_vars, supplied, mgr_vars, screen_vars, ext_vars>>

Next ==
    \/ \E price \in Prices : Update(price)
    \/ \E raw \in RawPredictions : DecidePosition(raw)
    \/ GetSignal
    \/ \E hist \in Histories : BulkInitialize(hist)

Spec == Init /\ [][Next]_vars

\* ------------------------------------------------- update calls, with a log
\* update(price), the price also appended to the log of supplied prices; the
\* log is cut off k + 2 calls after construction
LoggedUpdate(price) ==
    /\ Len(supplied) < k + 2
    /\ UpdateEngine(price)
    /\ supplied' = Append(supplied, price)

NextUpdate == \E price \in Prices : LoggedUpdate(price)

SpecUpdate == Init /\ [][NextUpdate]_vars

\* ------------------------------------------------------------ TraderManager
Abs(x) == IF x < 0 THEN -x ELSE x

\* slip: delta = signal + actual_position/BASE_AMOUNT
Reconcile_SignSlip(sig, actual) ==
    LET delta == sig + actual \div BASE_AMOUNT
    IN  IF delta # 0
        THEN [side |-> IF delta > 0 THEN "BUY" ELSE "SELL", size |-> Abs(delta) * BASE_AMOUNT]
        ELSE NoOrder

\* step: delta = signal - actual_position/BASE_AMOUNT and the order asked for
Reconcile(sig, actual) ==
    LET delta == sig - actual \div BASE_AMOUNT
    IN  IF delta # 0
        THEN [side |-> IF delta > 0 THEN "BUY" ELSE "SELL", size |-> Abs(delta) * BASE_AMOUNT]
        ELSE NoOrder

\* slip: a failed make_order tried once more
MakeOrderCalls_Retry(ord, fails) ==
    IF ord = NoOrder THEN <<>>
    ELSE IF fails THEN <<"make_order", "make_order">> ELSE <<"make_order">>

\* the make_order calls of one step: one if an order is asked for, whether or
\* not it fails
MakeOrderCalls(ord, fails) ==
    IF ord = NoOrder THEN <<>> ELSE <<"make_order">>

HeldUnits == -MaxHeld .. MaxHeld

\* the calls of a step that can raise
Failures ==
    {"none", "cancel_all", "get_price", "predict_up_probability", "get_position",
     "make_order"}

\* slip: decide_position and get_signal run on a window that is not full
EngineTick_NoReadyCheck(price, raw, oracle_fails) ==
    LET ph  == update(price_history, price)
        pr  == predict_up_probability(raw)
        res == decide_position(ph, position, pr, THRESHOLD_UP, THRESHOLD_DOWN)
    IN  IF oracle_fails
        THEN [price_history |-> ph, position |-> position, signal |-> 0,
              calls |-> <<"update", "ready", "decide_position">>]
        ELSE [price_history |-> ph, position |-> res.position,
              signal |-> get_signal(res.position),
              calls |-> <<"update", "ready", "decide_position", "get_signal">>]

\* slip: decide_position and get_signal called whatever ready() answered
\* (decide_position then returns at once)
EngineTick_DecideUnready(price, raw, oracle_fails) ==
    LET ph  == update(price_history, price)
        pr  == predict_up_probability(raw)
        res == decide_position(ph, position, pr, THRESHOLD_UP, THRESHOLD_DOWN)
    IN  IF ~ready(ph)
        THEN [price_history |-> ph, position |-> position, signal |-> get_signal(position),
              calls |-> <<"update", "ready", "decide_position", "get_signal">>]
        ELSE IF oracle_fails
        THEN [price_history |-> ph, position |-> position, signal |-> 0,
              calls |-> <<"update", "ready", "decide_position">>]
        ELSE [price_history |-> ph, position |-> res.position,
              signal |-> get_signal(res.position),
              calls |-> <<"update", "ready", "decide_position", "get_signal">>]

\* slip: the signal read before decide_position has run
EngineTick_StaleSignal(price, raw, oracle_fails) ==
    LET ph  == update(price_history, price)
        pr  == predict_up_probability(raw)
        res == decide_position(ph, position, pr, THRESHOLD_UP, THRESHOLD_DOWN)
    IN  IF ~ready(ph)
        THEN [price_history |-> ph, position |-> position, signal |-> 0,
              calls |-> <<"update", "ready">>]
        ELSE IF oracle_fails
        THEN [price_history |-> ph, position |-> position, signal |-> 0,
              calls |-> <<"update", "ready", "decide_position">>]
        ELSE [price_history |-> ph, position |-> res.position,
              signal |-> get_signal(position),
              calls |-> <<"update", "ready", "decide_position", "get_signal">>]

\* the engine's part of a step: update, then decide_position and get_signal if
\* ready; oracle_fails: predict_up_probability raises inside decide_position
EngineTick(price, raw, oracle_fails) ==
    LET ph  == update(price_history, price)
        pr  == predict_up_probability(raw)
        res == decide_position(ph, position, pr, THRESHOLD_UP, THRESHOLD_DOWN)
    IN  IF ~ready(ph)
        THEN [price_history |-> ph, position |-> position, signal |-> 0,
              calls |-> <<"update", "ready">>]
        ELSE IF oracle_fails
        THEN [price_history |-> ph, position |-> position, signal |-> 0,
              calls |-> <<"update", "ready", "decide_position">>]
        ELSE [price_history |-> ph, position |-> res.position,
              signal |-> get_signal(res.position),
              calls |-> <<"update", "ready", "decide_position", "get_signal">>]

\* TraderManager.step, called by run() as long as no step has raised.
\* price: what get_price returns, raw: the network's output, actual: what
\* get_position returns, fail: the call that raises in this step. The locals
\* of decide_position do not outlive the call.
Step(price, raw, actual, fail) ==
    /\ raised = "none"
    /\ op' = "step"
    /\ historical_prices' = <<>>
    /\ prediction' = 0 /\ prob' = 0 /\ predicted_side' = 0
    /\ exit_flag' = FALSE /\ prev' = 0
    /\ UNCHANGED <<THRESHOLD_UP, THRESHOLD_DOWN, cfg_vars, supplied, screen_vars, ext_vars, hist_init>>
    /\ IF fail \in {"cancel_all", "get_price"}
       THEN /\ calls' = IF fail = "cancel_all" THEN <<"cancel_all">>
                        ELSE <<"cancel_all", "get_price">>
            /\ raised' = fail
            /\ signal' = 0
            /\ actual_position' = 0 /\ order' = NoOrder
            /\ UNCHANGED <<price_history, position>>
       ELSE LET tick == EngineTick(price, raw, fail = "predict_up_probability")
                ord  == Reconcile(tick.signal, actual)
                head == <<"cancel_all", "get_price">> \o tick.calls
            IN  /\ price_history' = tick.price_history
                /\ position' = tick.position
                /\ signal' = tick.signal
                /\ IF fail = "predict_up_probability"
                   THEN /\ ready(tick.price_history)
                        /\ calls' = head
                        /\ raised' = fail
                        /\ actual_position' = 0 /\ order' = NoOrder
                   ELSE IF fail = "get_position"
                   THEN /\ calls' = head \o <<"get_position">>
                        /\ raised' = fail
                        /\ actual_position' = 0 /\ order' = NoOrder
                   ELSE /\ fail = "make_order" => ord # NoOrder
                        /\ calls' = head \o <<"get_position">>
                                         \o MakeOrderCalls(ord, fail = "make_order")
                        /\ raised' = fail
                        /\ actual_position' = actual
                        /\ order' = ord

NextManager ==
    \E price \in Prices, raw \in RawPredictions, actual \in HeldUnits, fail \in Failures :
        Step(price, raw, actual, fail)

SpecManager == Init /\ [][NextManager]_vars

\* ------------------------------------------------- TraderManager.__init__
\* _initialize_single_model on the engine just built
InitializeSingleModel(outcome, hist) ==
    LET res == initialize_single_model(outcome, hist, price_history, valid_start_index)
    IN  /\ op = "init"
        /\ op' = "initialize_single_model"
        /\ historical_prices' = IF outcome = "fetched" THEN hist ELSE <<>>
        /\ price_history' = res.price_history
        /\ hist_init' = [outcome |-> outcome, success |-> res.success, raised |-> res.raised]
        /\ UNCHANGED <<position, THRESHOLD_UP, THRESHOLD_DOWN,
                       prediction, prob, predicted_side, exit_flag, prev, signal>>
        /\ UNCHANGED <<cfg_vars, supplied, screen_vars, ext_vars>>
        /\ UNCHANGED <<calls, actual_position, order, raised>>

NextStartup ==
    \E outcome \in HistOutcomes, hist \in Histories : InitializeSingleModel(outcome, hist)

SpecStartup == Init /\ [][NextStartup]_vars

\* ----------------------------------------------------------- MainScreen.run
\* what the exchange answers in a run: get_asset or get_price may answer 'E'
Answers == {"ok", "asset_E", "price_E"}

\* MainScreen.run with emergency False (nothing in the file sets it): the
\* Traders are refreshed in list order with the price of this run, and the
\* sum of their sides is what make_position is asked to reach
Run(answer, price, indications) ==
    /\ IF answer = "ok"
       THEN /\ op' = "run"
            /\ data_list' = RunLoop(data_list, ListOrder, price, indications)
            /\ next_position' = NextPosition(data_list')
       ELSE /\ op' = "run_skipped"
            /\ next_position' = 0
            /\ UNCHANGED data_list
    /\ UNCHANGED <<price_history, position, THRESHOLD_UP, THRESHOLD_DOWN, prediction,
                   prob, predicted_side, exit_flag, prev, signal, historical_prices>>
    /\ UNCHANGED <<cfg_vars, supplied, mgr_vars, ext_vars>>

NextScreen ==
    \E answer \in Answers, price \in ScreenPrices, indications \in [Traders -> Indications] :
        Run(answer, price, indications)

SpecScreen == Init /\ [][NextScreen]_vars

\* -------------------------------------------- engines built with other windows
MaxWindow == 3
WindowNames ==
    {"sma_short", "sma_mid", "sma_long", "bollinger_band", "macd_long",
     "macd_signal", "rsi"}
WindowChoices == [WindowNames -> 1..MaxWindow] \cup {DefaultWindows}

InitWindows ==
    /\ \E w \in WindowChoices : Construct(w)
    /\ THRESHOLD_UP = DefaultThresholds.up /\ THRESHOLD_DOWN = DefaultThresholds.down
    /\ Idle

\* TradingModel.__init__ again, with one window size raised by one
RaiseWindow(name) ==
    /\ windows[name] < MaxWindow
    /\ windows' = [windows EXCEPT ![name] = @ + 1]
    /\ valid_start_index' = ValidStartOf(windows')
    /\ valid_start_before' = valid_start_index
    /\ op' = "raise_window"
    /\ UNCHANGED <<price_history, position, THRESHOLD_UP, THRESHOLD_DOWN,
                   prediction, prob, predicted_side, exit_flag, prev, signal>>
    /\ UNCHANGED <<historical_prices, supplied, mgr_vars, screen_vars, ext_vars, engine_p>>

NextWindows == \E name \in WindowNames : RaiseWindow(name)

SpecWindows == InitWindows /\ [][NextWindows]_vars

\* ------------------------------------------------ engines built with any p
\* a held count that starts at or below 0 only falls: followed down to -CountFloor
CountFloor == 2

\* hold lengths and window sizes handed to TradingModel.__init__
HoldArgs == -1 .. p
WindowArgs ==
    {DefaultWindows, [DefaultWindows EXCEPT !.rsi = 0],
     [DefaultWindows EXCEPT !.sma_short = -1]}

InitBuilt ==
    /\ \E w \in WindowArgs, hold \in HoldArgs : ConstructWith(w, hold)
    /\ \E t \in ThresholdSettings : THRESHOLD_UP = t.up /\ THRESHOLD_DOWN = t.down
    /\ Idle

\* one tick of the engine as step drives it: update, then decide_position and
\* get_signal if ready
Tick(price, raw) ==
    LET ph  == update(price_history, price)
        pr  == predict_up_probability(raw)
        res == decide_position_kp(k, engine_p, ph, position, pr,
                                  THRESHOLD_UP, THRESHOLD_DOWN)
    IN  /\ position.count > -CountFloor
        /\ op' = "tick"
        /\ price_history' = ph
        /\ historical_prices' = <<>>
        /\ IF ready(ph)
           THEN /\ prediction' = raw
                /\ prob' = pr
                /\ predicted_side' = PredictedSide(pr, THRESHOLD_UP, THRESHOLD_DOWN)
                /\ exit_flag' = res.exit_flag
                /\ prev' = res.prev
                /\ position' = res.position
                /\ signal' = get_signal(res.position)
           ELSE /\ prediction' = 0
                /\ prob' = 0 /\ predicted_side' = 0 /\ exit_flag' = FALSE /\ prev' = 0
                /\ signal' = 0
                /\ UNCHANGED position
        /\ UNCHANGED <<THRESHOLD_UP, THRESHOLD_DOWN>>
        /\ UNCHANGED <<cfg_vars, supplied, mgr_vars, screen_vars, ext_vars>>

NextBuilt == \E price \in Prices, raw \in RawPredictions : Tick(price, raw)

SpecBuilt == InitBuilt /\ [][NextBuilt]_vars

\* ------------------------------------------------- the end-to-end scenario
\* the engine and the inputs of the scenario: TradingModel(k=3, p=2) with the
\* module's RIKAKU_STD = 2 and SONKIRI_STD = 1, prices around 100 .. 104 and
\* oracle outputs 0.25, 0.6 and 0.9; runs of up to ticks ticks are followed
Scenario ==
    [k |-> 3, p |-> 2, prices |-> {100, 101, 103, 104}, oracle |-> {25, 60, 90},
     ticks |-> 6]

InitScenario ==
    /\ ConstructWith(DefaultWindows, Scenario.p)
    /\ THRESHOLD_UP = DefaultThresholds.up /\ THRESHOLD_DOWN = DefaultThresholds.down
    /\ Idle

\* one tick of that engine: update, then decide_position and get_signal if ready
ScenarioTick(price, raw) ==
    LET ph  == update_k(Scenario.k, price_history, price)
        pr  == predict_up_probability(raw)
        res == decide_position_kp(Scenario.k, engine_p, ph, position, pr,
                                  THRESHOLD_UP, THRESHOLD_DOWN)
    IN  /\ Len(supplied) < Scenario.ticks
        /\ supplied' = Append(supplied, price)
        /\ op' = "tick"
        /\ price_history' = ph
        /\ historical_prices' = <<>>
        /\ IF ready_k(Scenario.k, ph)
           THEN /\ prediction' = raw
                /\ prob' = pr
                /\ predicted_side' = PredictedSide(pr, THRESHOLD_UP, THRESHOLD_DOWN)
                /\ exit_flag' = res.exit_flag
                /\ prev' = res.prev
                /\ position' = res.position
                /\ signal' = get_signal(res.position)
           ELSE /\ prediction' = 0
                /\ prob' = 0 /\ predicted_side' = 0 /\ exit_flag' = FALSE /\ prev' = 0
                /\ signal' = 0
                /\ UNCHANGED position
        /\ UNCHANGED <<THRESHOLD_UP, THRESHOLD_DOWN>>
        /\ UNCHANGED <<cfg_vars, mgr_vars, screen_vars, ext_vars>>

NextScenario ==
    \E price \in Scenario.prices, raw \in Scenario.oracle : ScenarioTick(price, raw)

SpecScenario == InitScenario /\ [][NextScenario]_vars

\* --------------------------------------- HistoricalDataInitializer's calls
\* what a scan of the table gives: an exception, or the prices stored
Scans == {[ok |-> FALSE, prices |-> <<>>]} \cup {[ok |-> TRUE, prices |-> h] : h \in Histories}

\* HistoricalDataInitializer(): a new object in some environment
NewHistoricalDataInitializer(boto3, credentials) ==
    /\ op' = "HistoricalDataInitializer"
    /\ initializer' = HistoricalDataInitializer(boto3, credentials)
    /\ UNCHANGED exchange
    /\ UNCHANGED <<price_history, position, THRESHOLD_UP, THRESHOLD_DOWN, prediction,
                   prob, predicted_side, exit_flag, prev, signal, historical_prices>>
    /\ UNCHANGED <<cfg_vars, supplied, mgr_vars, screen_vars>>

\* initializer.is_available()
IsAvailable(connects) ==
    /\ op # "init"
    /\ initializer.raised = "none"
    /\ op' = "is_available"
    /\ LET a == is_available(initializer, connects) IN
       initializer' = [initializer EXCEPT !.available = a, !.answer = a,
                                          !.prices = <<>>]
    /\ UNCHANGED exchange
    /\ UNCHANGED <<price_history, position, THRESHOLD_UP, THRESHOLD_DOWN, prediction,
                   prob, predicted_side, exit_flag, prev, signal, historical_prices>>
    /\ UNCHANGED <<cfg_vars, supplied, mgr_vars, screen_vars>>

\* initializer.fetch_historical_prices(m)
FetchHistoricalPrices(connects, scan) ==
    /\ op # "init"
    /\ initializer.raised = "none"
    /\ op' = "fetch_historical_prices"
    /\ initializer' = fetch_historical_prices(initializer, connects, scan)
    /\ UNCHANGED exchange
    /\ UNCHANGED <<price_history, position, THRESHOLD_UP, THRESHOLD_DOWN, prediction,
                   prob, predicted_side, exit_flag, prev, signal, historical_prices>>
    /\ UNCHANGED <<cfg_vars, supplied, mgr_vars, screen_vars>>

NextHistory ==
    \/ \E boto3 \in BOOLEAN, credentials \in BOOLEAN :
           NewHistoricalDataInitializer(boto3, credentials)
    \/ \E connects \in BOOLEAN : IsAvailable(connects)
    \/ \E connects \in BOOLEAN, scan \in Scans : FetchHistoricalPrices(connects, scan)

SpecHistory == Init /\ [][NextHistory]_vars

\* ------------------------------------------------- the account at the exchange
\* exposures an account can hold when the bot starts, in parts of a lot
HeldParts == -(MaxHeld * LotParts + LotParts - 1) .. (MaxHeld * LotParts + LotParts - 1)
\* sizes make_order is called with, in parts of a lot
OrderSizes == -1 .. ((MaxHeld + 1) * LotParts + 1)
Boards == {[ask |-> a, bid |-> a - 1] : a \in Prices}
OrderFailures == {"none", "get_board", "order"}
Fills == {"full", "none"}

\* the exposure the account holds before the bot's first step
OpenAccount(held) ==
    /\ op = "init"
    /\ op' = "account"
    /\ exchange' = [exchange EXCEPT !.held = held]
    /\ UNCHANGED <<price_history, position, THRESHOLD_UP, THRESHOLD_DOWN, prediction,
                   prob, predicted_side, exit_flag, prev, signal, historical_prices>>
    /\ UNCHANGED <<cfg_vars, supplied, mgr_vars, screen_vars, initializer>>

\* the price offsets a BitFlyer is built with
Advantages == {0, 1}

\* api.make_order(side, size) on a BitFlyer built with order_type and advantage
MakeOrder(side, size, order_type, advantage, board, fail) ==
    /\ op \in {"init", "make_order"}
    /\ op' = "make_order"
    /\ LET res == make_order(side, size, order_type, board, advantage, fail)
       IN  exchange' = [exchange EXCEPT
                           !.request = [side |-> side, size |-> size,
                                        order_type |-> order_type],
                           !.sent = res.sent, !.raised = res.raised, !.fill = "none"]
    /\ UNCHANGED <<price_history, position, THRESHOLD_UP, THRESHOLD_DOWN, prediction,
                   prob, predicted_side, exit_flag, prev, signal, historical_prices>>
    /\ UNCHANGED <<cfg_vars, supplied, mgr_vars, screen_vars, initializer>>

NextOrder ==
    \E side \in {"BUY", "SELL"}, size \in OrderSizes, order_type \in {"MARKET", "LIMIT"},
       advantage \in Advantages, board \in Boards, fail \in OrderFailures :
        MakeOrder(side, size, order_type, advantage, board, fail)

SpecOrder == Init /\ [][NextOrder]_vars

\* TraderManager.step against the account, no call failing: get_position
\* reads the exposure held, the order goes through make_order (MARKET), and
\* what was sent fills completely or not at all before the next step
StepOnAccount(price, raw, fill) ==
    LET tick   == EngineTick(price, raw, FALSE)
        actual == get_position(exchange.held) * BASE_AMOUNT
        ord    == Reconcile(tick.signal, actual)
        res    == make_order(ord.side, (ord.size \div BASE_AMOUNT) * LotParts,
                             "MARKET", [ask |-> price, bid |-> price], 0, "none")
        filled == IF fill # "full" THEN 0
                  ELSE IF res.sent.side = "BUY" THEN res.sent.size
                  ELSE -res.sent.size
    IN  /\ op \in {"account", "step"}
        /\ op' = "step"
        /\ historical_prices' = <<>>
        /\ prediction' = 0 /\ prob' = 0 /\ predicted_side' = 0
        /\ exit_flag' = FALSE /\ prev' = 0
        /\ price_history' = tick.price_history
        /\ position' = tick.position
        /\ signal' = tick.signal
        /\ actual_position' = actual
        /\ order' = ord
        /\ calls' = <<"cancel_all", "get_price">> \o tick.calls \o <<"get_position">>
                        \o MakeOrderCalls(ord, FALSE)
        /\ exchange' = [held |-> exchange.held + filled,
                        request |-> IF ord = NoOrder THEN NoRequest
                                    ELSE [side |-> ord.side,
                                          size |-> (ord.size \div BASE_AMOUNT) * LotParts,
                                          order_type |-> "MARKET"],
                        sent |-> IF ord = NoOrder THEN NoSend ELSE res.sent,
                        raised |-> "none",
                        fill |-> IF ord = NoOrder THEN "none" ELSE fill]
        /\ UNCHANGED <<raised, hist_init>>
        /\ UNCHANGED <<THRESHOLD_UP, THRESHOLD_DOWN, cfg_vars, supplied, screen_vars,
                       initializer>>

NextExchange ==
    \/ \E held \in HeldParts : OpenAccount(held)
    \/ \E price \in Prices, raw \in RawPredictions, fill \in Fills :
           StepOnAccount(price, raw, fill)

SpecExchange == Init /\ [][NextExchange]_vars

\* ------------------------------------------------------------------ claims
\* a step that is a decide_position call on a ready model (one tick of the engine)
DecideTick == op' = "decide_position" /\ ready(price_history)

\* the newest price of the window
CurrentPrice == price_history[Len(price_history)]

\* the position a fresh open, reopen or flip installs on this tick
Fresh(side) ==
    [side |-> side, count |-> p, price |-> CurrentPrice, std |-> np_std(price_history)]

\* C1: a tick on a ready, Flat engine with a non-zero predicted side leaves the
\* position Holding on the predicted side, with count = p, price = the newest
\* price of the window and std = the standard deviation of the window.
C1_OpenFromFlat ==
    [][(DecideTick /\ position = FlatPosition /\ predicted_side' # 0)
        => /\ position' = Fresh(predicted_side')
           /\ position'.side \in {-1, 1}
           /\ position'.price = price_history[k]
           /\ (position'.std = 0 <=> \A i \in 1..k : price_history[i] = price_history[1])]_vars

\* reached: an open from Flat (no exit on this tick, a full count) on a window
\* that is not constant
C1_Witness ==
    /\ op = "decide_position" /\ ready(price_history)
    /\ ~exit_flag /\ predicted_side = 1
    /\ position = [side |-> 1, count |-> p, price |-> CurrentPrice,
                   std |-> np_std(price_history)]
    /\ position.std > 0

\* C2: a tick on a Holding engine on which the exit flag does not fire changes
\* nothing but count, which drops by exactly 1; a prediction opposite to the
\* held side does not change the side.
C2_HoldFrame ==
    [][(DecideTick /\ position.side # 0 /\ ~exit_flag')
        => /\ position'.side = position.side
           /\ position'.price = position.price
           /\ position'.std = position.std
           /\ position'.count = position.count - 1]_vars

\* reached: a held position one tick into its hold, not exited, with the
\* oracle predicting the other side
C2_Witness ==
    /\ op = "decide_position" /\ ready(price_history)
    /\ ~exit_flag /\ position.side # 0 /\ position.count = p - 1
    /\ predicted_side = -position.side

\* risk > RIKAKU_STD and risk < -SONKIRI_STD for risk = delta / std, written
\* without the division: std = sqrt(stdsq) / k
RiskAboveRikaku(delta, stdsq) ==
    delta > 0 /\ (delta * k) * (delta * k) > RIKAKU_STD * RIKAKU_STD * stdsq
RiskBelowSonkiri(delta, stdsq) ==
    delta < 0 /\ (delta * k) * (delta * k) > SONKIRI_STD * SONKIRI_STD * stdsq
RiskEqualsRikaku(delta, stdsq) ==
    delta > 0 /\ stdsq > 0 /\ (delta * k) * (delta * k) = RIKAKU_STD * RIKAKU_STD * stdsq
RiskEqualsMinusSonkiri(delta, stdsq) ==
    delta < 0 /\ stdsq > 0 /\ (delta * k) * (delta * k) = SONKIRI_STD * SONKIRI_STD * stdsq

\* (current price - entry price) * side of the held position
HeldDelta == (CurrentPrice - position.price) * position.side

\* C3: on a tick on a Holding engine the exit flag fires exactly when the count
\* after the decrement is 0, or risk > rikaku, or risk < -sonkiri; a risk equal
\* to rikaku or to -sonkiri with a positive count does not exit.
C3_ExitFlagIff ==
    [][(DecideTick /\ position.side # 0)
        => /\ exit_flag' <=> \/ position.count - 1 = 0
                             \/ RiskAboveRikaku(HeldDelta, position.std)
                             \/ RiskBelowSonkiri(HeldDelta, position.std)
           /\ (position.count - 1 > 0 /\ RiskEqualsRikaku(HeldDelta, position.std))
                => ~exit_flag'
           /\ (position.count - 1 > 0 /\ RiskEqualsMinusSonkiri(HeldDelta, position.std))
                => ~exit_flag']_vars

\* reached: a tick with risk exactly rikaku and a positive count, not exited
C3_Witness ==
    /\ op = "decide_position" /\ ready(price_history)
    /\ position.side # 0 /\ position.count = p - 1 /\ position.count > 0
    /\ ~exit_flag
    /\ RiskEqualsRikaku(HeldDelta, position.std)

\* reached as well: a tick with risk exactly -sonkiri and a positive count,
\* not exited
C3_WitnessSonkiri ==
    /\ op = "decide_position" /\ ready(price_history)
    /\ position.side # 0 /\ position.count = p - 1 /\ position.count > 0
    /\ ~exit_flag
    /\ RiskEqualsMinusSonkiri(HeldDelta, position.std)

\* C4: an exit with the predicted side equal to the side held before it ends
\* the tick Holding on that side with count = p, price = current price and
\* std = std of the current window (never Flat at the end of the tick).
C4_ReopenSameSide ==
    [][(DecideTick /\ position.side # 0 /\ exit_flag' /\ predicted_side' = position.side)
        => /\ position' = Fresh(position.side)
           /\ position' # FlatPosition
           /\ prev' = position.side]_vars

\* reached: an exit followed by a reopen on the side held before
C4_Witness ==
    /\ op = "decide_position" /\ ready(price_history)
    /\ exit_flag /\ prev # 0 /\ predicted_side = prev
    /\ position = Fresh(prev)

\* C5: an exit with the predicted side opposite to the side held before it ends
\* the tick Holding on the new side with fresh fields; the signal goes from the
\* old side to the new one with no 0 in between.
C5_FlipOppositeSide ==
    [][(DecideTick /\ position.side # 0 /\ exit_flag' /\ predicted_side' = -position.side)
        => /\ position' = Fresh(-position.side)
           /\ get_signal(position) = position.side
           /\ get_signal(position') = -position.side
           /\ get_signal(position') # 0]_vars

\* reached: an exit followed by a flip to the other side
C5_Witness ==
    /\ op = "decide_position" /\ ready(price_history)
    /\ exit_flag /\ prev # 0 /\ predicted_side = -prev
    /\ position = Fresh(-prev)

\* C6: an exit with predicted side 0 leaves the position Flat on that tick, and
\* get_signal called on that tick returns 0.
C6_ExitToFlat ==
    [][/\ (DecideTick /\ position.side # 0 /\ exit_flag' /\ predicted_side' = 0)
            => position' = FlatPosition /\ get_signal(position') = 0
       /\ (op = "decide_position" /\ exit_flag /\ predicted_side = 0 /\ op' = "get_signal")
            => signal' = 0]_vars

\* reached: get_signal called right after a tick that exited on predicted side 0
C6_Witness ==
    /\ op = "get_signal" /\ ready(price_history)
    /\ exit_flag /\ prev # 0 /\ predicted_side = 0
    /\ position = FlatPosition /\ signal = 0

\* C7: a Flat engine stays Flat, field for field, over every step other than a
\* tick with a non-zero predicted side; so it stays Flat for as long as every
\* tick predicts 0.
C7_FlatStaysFlat ==
    [][(position = FlatPosition /\ ~(DecideTick /\ predicted_side' # 0))
        => position' = FlatPosition]_vars

\* reached: a tick on a ready, Flat engine with predicted side 0 and no exit
C7_Witness ==
    /\ op = "decide_position" /\ ready(price_history)
    /\ predicted_side = 0 /\ ~exit_flag /\ prev = 0
    /\ prob > THRESHOLD_DOWN /\ prob <= THRESHOLD_UP
    /\ position = FlatPosition

\* C8: the predicted side is +1 if prob > THRESHOLD_UP, -1 if prob <= THRESHOLD_DOWN,
\* else 0 (seen in the side a Flat engine opens); with both thresholds 0.5 a
\* probability of exactly 0.5 gives -1 and no probability in [0, 1] gives 0.
C8_PredictedSide ==
    [][DecideTick
        => LET expected == IF prob' > THRESHOLD_UP THEN 1
                           ELSE IF prob' <= THRESHOLD_DOWN THEN -1 ELSE 0
           IN  /\ predicted_side' = expected
               /\ position = FlatPosition => position'.side = expected
               /\ (THRESHOLD_UP = DefaultThresholds.up /\ THRESHOLD_DOWN = DefaultThresholds.down)
                    => /\ prob' = 50 => predicted_side' = -1
                       /\ predicted_side' # 0
                       /\ \A q \in 0..100 :
                            PredictedSide(q, THRESHOLD_UP, THRESHOLD_DOWN) # 0]_vars

\* reached: the default thresholds, a probability of exactly 0.5, a short opened
C8_Witness ==
    /\ op = "decide_position" /\ ready(price_history)
    /\ THRESHOLD_UP = 50 /\ THRESHOLD_DOWN = 50
    /\ prob = 50 /\ predicted_side = -1
    /\ ~exit_flag /\ position = Fresh(-1)

\* C9: the position is always Flat (side 0, count 0, price 0, std 0) or Holding
\* with side +1 or -1 and 1 <= count <= p.
C9_PositionShape ==
    \/ position = FlatPosition
    \/ position.side \in {-1, 1} /\ position.count >= 1 /\ position.count <= p

\* reached: a held position on the last tick of its hold (count 1)
C9_Witness ==
    /\ op = "decide_position" /\ ready(price_history)
    /\ position.side # 0 /\ position.count = 1 /\ position.count < p
    /\ ~exit_flag

\* C10: get_signal returns the held side when the position is Holding with
\* count > 0 and 0 otherwise; its value is one of -1, 0, +1.
C10_GetSignal ==
    /\ signal \in {-1, 0, 1}
    /\ op = "get_signal"
        => signal = IF position.side # 0 /\ position.count > 0 THEN position.side ELSE 0

\* reached: get_signal returning the side of a held short
C10_Witness ==
    /\ op = "get_signal" /\ signal = -1
    /\ position.side = -1 /\ position.count > 0

\* C11: a position opened with entry volatility 0 is held until its count
\* reaches 0: on every later tick the exit flag fires exactly when the count
\* after the decrement is 0, whatever the price has done.
C11_ZeroVolatilityHolds ==
    [][(DecideTick /\ position.side # 0 /\ position.std = 0)
        => (exit_flag' <=> position.count - 1 = 0)]_vars

\* C12: a tick on which the network's output lies outside [0, 1] leaves the
\* position as it was: no open, exit, reopen or flip.
C12_OutOfRangeSkipped ==
    [][(DecideTick /\ (prediction' < 0 \/ prediction' > 100))
        => position' = position]_vars

\* the call made last is bulk_initialize; the length of the history it was handed
BulkCall == op = "bulk_initialize"
HistLen == Len(historical_prices)

\* C13: for a history of at least valid_start_index + k samples bulk_initialize
\* leaves exactly the k samples history[valid_start_index : valid_start_index + k]
\* in price_history and the model ready; these are not the k most recent
\* samples when the history is longer than valid_start_index + k.
C13_BulkWindow ==
    (BulkCall /\ HistLen >= valid_start_index + k)
        => /\ Len(price_history) = k
           /\ \A i \in 1..k : price_history[i] = historical_prices[valid_start_index + i]
           /\ price_history[1] = historical_prices[valid_start_index + 1]
           /\ ready(price_history)
           /\ HistLen > valid_start_index + k
                => \E i \in 1..k : price_history[i] # historical_prices[HistLen - k + i]

\* reached: a warm start from a history longer than valid_start_index + k
C13_Witness ==
    /\ BulkCall /\ HistLen > valid_start_index + k
    /\ ready(price_history)
    /\ price_history[k] # historical_prices[HistLen]

\* C14: for a history shorter than valid_start_index + k bulk_initialize installs
\* nothing: price_history is empty and the model is not ready.
C14_ShortHistoryRejected ==
    (BulkCall /\ HistLen < valid_start_index + k)
        => price_history = <<>> /\ ~ready(price_history)

StartCandidates ==
    {windows.sma_short - 1, windows.sma_mid - 1, windows.sma_long - 1,
     windows.bollinger_band - 1,
     windows.macd_long - 1 + windows.macd_signal - 1,
     windows.rsi}

\* C16: valid_start_index is the maximum of (longest moving average - 1),
\* (band window - 1), (MACD long - 1 + MACD signal - 1) and the RSI window;
\* with the default windows (5, 20, 60, 20, 26, 9, 14) it is 59.
C16_ValidStartIndex ==
    /\ valid_start_index \in StartCandidates
    /\ \A c \in StartCandidates : valid_start_index >= c
    /\ windows = DefaultWindows => valid_start_index = 59

\* reached: the engine built with the default windows, its start set by the long
\* moving average
C16_Witness ==
    /\ windows = DefaultWindows
    /\ valid_start_index = 59
    /\ valid_start_index = windows.sma_long - 1

\* C17: raising one window size while the others stay fixed never lowers
\* valid_start_index.
C17_Monotone ==
    op = "raise_window" => valid_start_index >= valid_start_before

\* reached: a raised MACD signal window that raised valid_start_index
C17_Witness ==
    /\ op = "raise_window"
    /\ valid_start_index > valid_start_before
    /\ valid_start_index = windows.macd_long - 1 + windows.macd_signal - 1
    /\ valid_start_index > windows.rsi

\* C18: after n update calls on an engine built empty, price_history is the
\* last min(n, k) supplied prices in arrival order; it never holds more than k.
C18_WindowIsLastK ==
    LET n == Len(supplied)
        m == IF n < k THEN n ELSE k
    IN  /\ Len(price_history) = m
        /\ Len(price_history) <= k
        /\ \A i \in 1..m : price_history[i] = supplied[n - m + i]

\* reached: k + 1 updates, the oldest price evicted and the newest kept
C18_Witness ==
    /\ op = "update"
    /\ Len(supplied) = k + 1
    /\ supplied[1] # supplied[2] /\ supplied[k] # supplied[k + 1]
    /\ price_history[1] = supplied[2]
    /\ price_history[k] = supplied[k + 1]

\* the step made last got as far as reconciling: get_position returned
Reconciled == op = "step" /\ raised \in {"none", "make_order"}

\* the number of make_order calls in the step made last
OrdersRequested == Cardinality({i \in 1..Len(calls) : calls[i] = "make_order"})

\* C19: with delta = signal - actual (in lots of BASE_AMOUNT) a step asks for no
\* order when delta = 0 and otherwise for exactly one, BUY if delta > 0, SELL if
\* delta < 0, of size |delta| * BASE_AMOUNT.
C19_Reconcile ==
    Reconciled
        => LET delta == signal - actual_position
           IN  /\ delta = 0 => order = NoOrder /\ OrdersRequested = 0
               /\ delta > 0 => order.side = "BUY"
               /\ delta < 0 => order.side = "SELL"
               /\ delta # 0 => /\ OrdersRequested = 1
                               /\ order.size = (IF delta > 0 THEN delta ELSE -delta) * BASE_AMOUNT
               /\ Reconcile(0, 0) = NoOrder
               /\ Reconcile(3, 1 * BASE_AMOUNT) = [side |-> "BUY", size |-> 2 * BASE_AMOUNT]

\* reached: target 1 lot, 1 lot held short, BUY 0.002 asked for
C19_Witness ==
    /\ Reconciled /\ raised = "none"
    /\ signal = 1 /\ actual_position = -1
    /\ order = [side |-> "BUY", size |-> 2]

\* C20: a step calls make_order at most once; when that call fails it is the
\* last call of the step.
C20_AtMostOneOrder ==
    op = "step"
        => /\ OrdersRequested <= 1
           /\ raised = "make_order"
                => /\ OrdersRequested = 1
                   /\ calls[Len(calls)] = "make_order"
                   /\ \A i \in 1..(Len(calls) - 1) : calls[i] # "make_order"

\* reached: a step whose make_order call failed
C20_Witness ==
    /\ op = "step" /\ raised = "make_order"
    /\ order # NoOrder
    /\ calls[Len(calls)] = "make_order"

\* the engines TraderManager is configured with: the one TradingModel
ConfiguredEngines == {1}

\* what the engine's state says its signal is
SignalOf(pos) == IF pos.count > 0 THEN pos.side ELSE 0

\* C21: the target a step reconciles against is the sum of the configured
\* engines' signals (here the one engine's) times BASE_AMOUNT, and the sum lies
\* in [-N, N] for N engines.
C21_TargetIsSignalSum ==
    Reconciled
        => LET N      == Cardinality(ConfiguredEngines)
               total  == SignalOf(position)
               target == total * BASE_AMOUNT
           IN  /\ signal = total
               /\ total >= -N /\ total <= N
               /\ order = NoOrder <=> target = actual_position
               /\ order # NoOrder
                    => order.size = Abs(target - actual_position)

\* reached: a step that reconciled against a short engine while one lot was
\* held long
C21_Witness ==
    /\ Reconciled
    /\ position.side = -1 /\ position.count > 0 /\ signal = -1
    /\ actual_position = 1
    /\ order = [side |-> "SELL", size |-> 2]

\* every order in which the Traders can be refreshed
Orders == {o \in [Traders -> Traders] : \A i, j \in Traders : o[i] = o[j] => i = j}

\* refreshing Trader i leaves every other Trader as it was
OthersKept(dl, i, price, indication) ==
    \A j \in Traders \ {i} : RefreshOne(dl, i, price, indication)[j] = dl[j]

\* C22: in a tick that refreshes several engines, refreshing one engine leaves
\* the others' positions and price lists alone, and whatever the order of the
\* engines the positions and the aggregate target at the end are the same.
C22_OrderIndependent ==
    [][op' = "run"
        => /\ \E price \in ScreenPrices, indications \in [Traders -> Indications] :
                data_list' = RunLoop(data_list, ListOrder, price, indications)
           /\ \A price \in ScreenPrices, indications \in [Traders -> Indications] :
                data_list' = RunLoop(data_list, ListOrder, price, indications)
                    => /\ \A i \in Traders : OthersKept(data_list, i, price, indications[i])
                       /\ \A i \in Traders : \A j \in Traders \ {i} :
                            OthersKept(RefreshOne(data_list, j, price, indications[j]),
                                       i, price, indications[i])
                       /\ \A o \in Orders :
                            /\ RunLoop(data_list, o, price, indications) = data_list'
                            /\ NextPosition(RunLoop(data_list, o, price, indications))
                                 = next_position']_vars

\* reached: a run in which both Traders opened, on opposite sides
C22_Witness ==
    /\ op = "run"
    /\ data_list[1].position.side = 1
    /\ data_list[1].position.count = TraderConfigs[1].predict_length
    /\ data_list[2].position.side = -1
    /\ data_list[2].position.count = TraderConfigs[2].predict_length
    /\ next_position = 0

\* the step made last made the call c
Called(c) == \E i \in 1..Len(calls) : calls[i] = c

\* C23: a step in which the engine's transition (decide_position, its oracle
\* call) fails still completes: get_position is called and the reconciliation
\* runs.
C23_TickCompletes ==
    (op = "step" /\ Called("decide_position"))
        => /\ Called("get_position")
           /\ raised # "predict_up_probability"

\* C24: the only exception that leaves a step is the one make_order raises; a
\* failure of cancel_all, get_price, get_position or of the engine's transition
\* stays inside the step and the run loop goes on.
C24_OnlyOrderErrorEscapes ==
    raised \in {"none", "make_order"}

\* C25: an engine is only built with positive k, p and window sizes (anything
\* else is rejected at construction), so that no engine runs with p <= 0 and
\* no position is opened with count <= 0.
C25_PositiveConfiguration ==
    op = "tick"
        => /\ k > 0
           /\ engine_p > 0
           /\ \A name \in DOMAIN windows : windows[name] > 0
           /\ position.side # 0 => position.count > 0

\* the calls of a whole step on an engine whose window is ph after the update
\* and which asks for the order ord
CallsInOrder(ph, ord) ==
    <<"cancel_all", "get_price", "update", "ready">>
        \o (IF ready(ph) THEN <<"decide_position", "get_signal">> ELSE <<>>)
        \o <<"get_position">>
        \o (IF ord # NoOrder THEN <<"make_order">> ELSE <<>>)

\* C26: the calls of a step come in the order cancel_all, get_price, update,
\* decide_position if the engine is ready, get_position, at most one
\* make_order; cancel_all is called exactly once, first.
C26_CallOrder ==
    op = "step"
        => LET full == CallsInOrder(price_history, order)
           IN  /\ Len(calls) >= 1 /\ Len(calls) <= Len(full)
               /\ \A i \in 1..Len(calls) : calls[i] = full[i]
               /\ calls[1] = "cancel_all"
               /\ Cardinality({i \in 1..Len(calls) : calls[i] = "cancel_all"}) = 1
               /\ raised = "none" => calls = full

\* reached: a whole step on a ready engine that placed an order
C26_Witness ==
    /\ op = "step" /\ raised = "none"
    /\ calls = <<"cancel_all", "get_price", "update", "ready", "decide_position",
                 "get_signal", "get_position", "make_order">>

\* C27: when the historical-data initialization is unavailable or fails,
\* TraderManager is still built (no exception leaves __init__) and its engine
\* is unwarmed: not ready, Flat.
C27_FallbackUnwarmed ==
    (op = "initialize_single_model" /\ ~hist_init.success)
        => /\ hist_init.raised = "none"
           /\ price_history = <<>>
           /\ ~ready(price_history)
           /\ position = FlatPosition

\* reached: an initialization that failed while fetching
C27_Witness ==
    /\ op = "initialize_single_model"
    /\ hist_init.outcome = "fetch_error"
    /\ ~hist_init.success
    /\ ~ready(price_history)

\* C29: the engine k = 3, p = 2 fed 100, 101, 103 with oracle 0.9 on tick 3 is
\* Flat with signal 0 after ticks 1 and 2, consults the oracle from tick 3 on
\* and is Holding +1, count 2, entry 103 after tick 3; a position Holding +1, count 2, entry 103 that meets price 104
\* and oracle 0.6 with risk = (104 - 103) / entry std > 2 exits and is
\* reopened on +1 with count 2 and entry 104.
C29_Scenario ==
    [][op' = "tick"
        => /\ Len(supplied') <= 2 => position' = FlatPosition /\ signal' = 0
           /\ Len(supplied') >= 3 => prediction' \in Scenario.oracle
           /\ (supplied' = <<100, 101, 103>> /\ prob' = 90)
                => /\ position' = [side |-> 1, count |-> 2, price |-> 103,
                                   std |-> np_std(<<100, 101, 103>>)]
                   /\ signal' = 1
           /\ (/\ position.side = 1 /\ position.count = 2 /\ position.price = 103
               /\ supplied'[Len(supplied')] = 104 /\ prob' = 60
               /\ RiskGreater(RiskOver(Scenario.k, 104, position), RIKAKU_STD))
                => /\ exit_flag'
                   /\ position' = [side |-> 1, count |-> 2, price |-> 104,
                                   std |-> np_std(price_history')]
                   /\ signal' = 1]_vars

\* reached: the scenario's three ticks, then a position entered at 103 on a
\* quiet window, which price 104 with oracle 0.6 takes out and reopens at 104
C29_Witness ==
    /\ op = "tick"
    /\ supplied = <<100, 101, 103, 104, 103, 104>>
    /\ prob = 60 /\ exit_flag /\ prev = 1
    /\ position.side = 1 /\ position.count = 2 /\ position.price = 104

\* C30: a position opened or renewed with count p is closed or renewed within
\* p decide_position calls: every call on a held position either exits (to
\* Flat or to a position renewed at the newest price with count p) or keeps
\* the entry and takes 1 off a count that stays at least 1; a position on its
\* last tick (count 1) always exits.
C30_HeldAtMostP ==
    [][(DecideTick /\ position.side # 0)
        => /\ position.count >= 1 /\ position.count <= p
           /\ position.count = 1 => exit_flag'
           /\ exit_flag'
                => \/ position' = FlatPosition
                   \/ /\ position'.count = p
                      /\ position'.price = CurrentPrice
                      /\ position'.std = np_std(price_history)
           /\ ~exit_flag'
                => /\ position' = [position EXCEPT !.count = @ - 1]
                   /\ position'.count >= 1]_vars

\* reached: a position that a price move has not taken out, on its last tick
C30_Witness ==
    /\ op = "decide_position" /\ ready(price_history)
    /\ ~exit_flag
    /\ position.side # 0 /\ position.count = 1
    /\ position.price # CurrentPrice

\* the historical store is unavailable to this initializer
StoreUnavailable(hdi) == ~hdi.BOTO3_AVAILABLE \/ ~hdi.credentials

C32_OnlyDecideMovesPosition ==
    /\ [](op \in {"init", "bulk_initialize"} => position = FlatPosition)
    /\ [][op' \in {"update", "bulk_initialize", "get_signal"}
            => position' = position]_vars

\* an open position, part of its hold gone, has come through an update
C32_Witness ==
    /\ op = "update"
    /\ position.side # 0
    /\ position.count < p

\* C33: with the default thresholds (0.5 and 0.5) and p >= 1, every tick on
\* which the engine is ready ends with a held position, the first such tick
\* included: an exit is followed in the same tick by a reopen or a flip onto
\* the predicted side with count p, and the signal of the tick is +1 or -1
C33_NeverFlatOnceReady ==
    ( /\ op = "tick" /\ ready(price_history)
      /\ THRESHOLD_UP = DefaultThresholds.up /\ THRESHOLD_DOWN = DefaultThresholds.down
      /\ engine_p >= 1 )
        => /\ predicted_side \in {-1, 1}
           /\ position.side \in {-1, 1}
           /\ position.count >= 1
           /\ signal = position.side
           /\ exit_flag => (position.side = predicted_side /\ position.count = engine_p)

\* a held position left on this tick and flipped at once to the other side
C33_Witness ==
    /\ op = "tick" /\ ready(price_history)
    /\ THRESHOLD_UP = DefaultThresholds.up /\ THRESHOLD_DOWN = DefaultThresholds.down
    /\ engine_p >= 1
    /\ exit_flag /\ prev = 1
    /\ position.side = -1 /\ position.count = engine_p /\ signal = -1

\* C34: in a run of TraderManager, as long as the engine holds fewer than k
\* prices (ready() is false) decide_position has changed nothing: the
\* position is Flat, and the signal a step reconciles against is 0
C34_UnreadyIsFlat ==
    ~ready(price_history)
        => /\ Len(price_history) < k
           /\ position = FlatPosition
           /\ signal = 0
           /\ Reconciled => (order = NoOrder <=> actual_position = 0)

\* a step made before the window is full
C34_Witness ==
    /\ op = "step" /\ raised = "none"
    /\ price_history # <<>> /\ ~ready(price_history)
    /\ position = FlatPosition /\ signal = 0

C36_ReadyReachedAndKept ==
    /\ Len(supplied) < k => ~ready(price_history)
    /\ Len(supplied) >= k => (ready(price_history) /\ Len(price_history) = k)

\* two updates past the one that made the engine ready
C36_Witness ==
    /\ op = "update"
    /\ Len(supplied) = k + 2
    /\ ready(price_history) /\ Len(price_history) = k

\* C37: whenever initialize_single_model returns True the engine is usable
\* at once: ready() holds and price_history is exactly k warm samples; a
\* fetch of fewer than valid_start_index + k prices does not give True
C37_TrueMeansReady ==
    (op = "initialize_single_model" /\ hist_init.success)
        => /\ ready(price_history)
           /\ Len(price_history) = k
           /\ Len(historical_prices) >= valid_start_index + k

\* C38: make_order never sends an order below the minimum lot: a request of
\* less than 0.001 returns without sending anything and without an error,
\* and every order sent has the size requested cut down (not rounded) to a
\* multiple of 0.001, which is at least 0.001
C38_MinimumLot ==
    op = "make_order"
        => /\ exchange.request.size < LotParts
                => (exchange.sent = NoSend /\ exchange.raised = "none")
           /\ exchange.sent # NoSend
                => /\ exchange.sent.side = exchange.request.side
                   /\ exchange.sent.size % LotParts = 0
                   /\ exchange.sent.size >= LotParts
                   /\ exchange.sent.size <= exchange.request.size
                   /\ exchange.request.size - exchange.sent.size < LotParts

\* a request of a lot and a part of a lot, sent as one lot
C38_Witness ==
    /\ op = "make_order"
    /\ exchange.request.size = LotParts + 1
    /\ exchange.sent.size = LotParts
    /\ exchange.raised = "none"

\* the step made last left nothing to do: no order, or one that filled
Settled == op = "step" /\ (order = NoOrder \/ exchange.fill = "full")

\* C39: reconciliation converges and is idempotent: when the order a step
\* asked for fills completely, the exposure held (as get_position reports it)
\* is signal * BASE_AMOUNT afterwards, and a following step with the same
\* signal, the exposure untouched in between, asks for no order
C39_Converges ==
    /\ [](op = "step" /\ order # NoOrder /\ exchange.fill = "full"
            => get_position(exchange.held) * BASE_AMOUNT = signal * BASE_AMOUNT)
    /\ [][(Settled /\ op' = "step" /\ signal' = signal) => order' = NoOrder]_vars

====
